---------------------------- MODULE Spec2Model ----------------------------
(***************************************************************************)
(* Grounded retrieval pipeline of daemonIQ-rag: the concept grounder       *)
(* client (app/grounding.py), the filter builder, the concept-overlap      *)
(* reranker and the grounded retrieval orchestrator                        *)
(* (app/services/retrieval.py), the /retrieve handler                      *)
(* (app/routers/query.py, app/models.py), the index cache                  *)
(* (app/dependencies.py), and ingestion (app/routers/ingest.py,            *)
(* app/services/indexing.py).                                              *)
(*                                                                         *)
(* Numbers.  Confidences are integers in tenths (9 is 0.9); a mean is kept *)
(* exactly as the pair [num, den].  Scores are integers in units of        *)
(* 1/100000 (ScoreOne is 1.0), so that a score times the three boosts,     *)
(* each in tenths, is again an integer.  The arithmetic is exact; the      *)
(* rounding of Python floats is not modelled.                              *)
(***************************************************************************)
EXTENDS Integers, Sequences, FiniteSets, TLC

VARIABLES
    pc,          \* position of the operation under way
    mode,        \* config.RETRIEVAL_MODE
    minConf,     \* config.GROUNDED_MIN_CONF, in tenths
    limitMult,   \* config.GROUNDED_LIMIT_MULT
    store,       \* points of the collection, nearest to the query first
    text,        \* the text handed to grounding (the query text)
    maxLength,   \* ground_text's max_length
    topK,        \* top_k of the request
    resp,        \* what the grounding service answered to the last call
    concepts,    \* query_concepts, the payload ground_text returned
    qfilter,     \* qdrant_filter, the result of build_grounded_filter
    nodes,       \* the candidates the filtered search returned
    result,      \* what the operation returned or raised
    response,    \* the HTTP response of the /retrieve handler
    calls,       \* the calls made so far, in order
    req,         \* the fields q and query of the request body
    chunks,      \* the nodes handed to add_grounding_metadata
    chunksIn,    \* the same nodes as they were when it was called
    useGrounding, \* its use_grounding argument
    available,   \* what is_grounding_available() answered
    cursor,      \* the number of nodes its loop has gone through
    indexCache,  \* dependencies._index_cache
    callers,     \* the threads inside get_or_build_index
    files,       \* the file names in DATA_DIR
    collection,  \* the collection of the vector store
    ingests      \* the calls of build_index that returned, in order

vars == <<pc, mode, minConf, limitMult, store, text, maxLength, topK, resp,
          concepts, qfilter, nodes, result, response, calls, req, chunks,
          chunksIn, useGrounding, available, cursor, indexCache, callers,
          files, collection, ingests>>

----------------------------------------------------------------------------
(* Bounds of the model                                                     *)

MaxDocs == 3
MaxTopK == 2
MaxQueryTypes == 1
MaxEquipTypes == 2
MaxPointTypes == 1
MaxField == 2
MaxText == 2
MaxCands == 2
MaxChunks == 2
MaxCallers == 3
MaxFiles == 2
MaxIngests == 3

----------------------------------------------------------------------------
(* Values                                                                  *)

\* Python's None, where a string is expected
NoneVal == "<None>"

\* the absence of a value of a variable (no filter, nothing returned yet)
None == [none |-> TRUE]

Min(a, b) == IF a < b THEN a ELSE b

Take(s, n) == SubSeq(s, 1, Min(n, Len(s)))

Range(s) == {s[i] : i \in 1..Len(s)}

SeqsUpTo(S, n) == UNION {[1..m -> S] : m \in 0..n}

----------------------------------------------------------------------------
(* app/grounding.py: ground_text                                           *)

DefaultMaxLength == 800
QueryMaxLength == 500

EmptyPayload ==
    [equip |-> <<>>, brick_equip |-> <<>>, ptags |-> <<>>, raw |-> <<>>,
     gconf |-> [num |-> 0, den |-> 1]]

\* str.strip(): the text without its leading and trailing whitespace
RECURSIVE LStrip(_)
LStrip(s) == IF s # <<>> /\ Head(s) = " " THEN LStrip(Tail(s)) ELSE s

RECURSIVE RStrip(_)
RStrip(s) ==
    IF s # <<>> /\ s[Len(s)] = " " THEN RStrip(SubSeq(s, 1, Len(s) - 1)) ELSE s

Strip(s) == RStrip(LStrip(s))

\* a bug: the text is trimmed before it is cut
PrepareTextTrimFirst(t, max_length) == Take(Strip(t), max_length)

\* text[:max_length].strip()
PrepareText(t, max_length) == Strip(Take(t, max_length))

\* " ".join(tags)
RECURSIVE JoinTags(_)
JoinTags(tags) ==
    IF tags = <<>> THEN ""
    ELSE IF Len(tags) = 1 THEN tags[1]
    ELSE tags[1] \o " " \o JoinTags(Tail(tags))

\* the per-concept confidences the service sends, in tenths
ConfTenths(c) ==
    CASE c = "0.0" -> 0
      [] c = "0.3" -> 3
      [] c = "0.6" -> 6
      [] c = "0.9" -> 9
      [] OTHER -> 0

IsNumber(c) == c \in {"0.0", "0.3", "0.6", "0.9"}

\* t.lower() on the raw tags of the model
Lower(t) ==
    CASE t = "Temp" -> "temp"
      [] t = "AIR" -> "air"
      [] OTHER -> t

\* the lowercased raw tags, in lexicographic order
RawOrder == <<"air", "temp", "zone">>

\* sorted(list(set(...)))
SortedSet(S) == SelectSeq(RawOrder, LAMBDA t : t \in S)

\* the first loop over equipment_types (lines 73-80); a non-dict entry has no
\* .get and ends the loop with an AttributeError, keeping what was appended
RECURSIVE EquipLoop(_, _)
EquipLoop(items, st) ==
    IF items = <<>> \/ st.exc # "none" THEN st
    ELSE LET e == Head(items) IN
         IF ~e.dict THEN [st EXCEPT !.exc = "AttributeError"]
         ELSE LET p1 == IF e.haystack_kind # NoneVal
                        THEN [st.payload EXCEPT
                                 !.equip = Append(@, e.haystack_kind)]
                        ELSE st.payload
                  p2 == IF e.brick_class # NoneVal
                        THEN [p1 EXCEPT
                                 !.brick_equip = Append(@, e.brick_class)]
                        ELSE p1
              IN EquipLoop(Tail(items), [st EXCEPT !.payload = p2])

\* the loop over point_types (lines 84-89); joining tags that are not strings
\* raises a TypeError
RECURSIVE PointLoop(_, _)
PointLoop(items, st) ==
    IF items = <<>> \/ st.exc # "none" THEN st
    ELSE LET p == Head(items) IN
         IF ~p.dict THEN [st EXCEPT !.exc = "AttributeError"]
         ELSE IF p.haystack_tags = <<>> THEN PointLoop(Tail(items), st)
         ELSE IF NoneVal \in Range(p.haystack_tags)
              THEN [st EXCEPT !.exc = "TypeError"]
         ELSE PointLoop(Tail(items),
                        [st EXCEPT !.payload.ptags =
                                       Append(@, JoinTags(p.haystack_tags))])

\* lines 92-93: the raw tags, lowercased, without duplicates, sorted
RawStep(raw_tags, st) ==
    IF st.exc # "none" THEN st
    ELSE IF ~raw_tags.iter THEN [st EXCEPT !.exc = "TypeError"]
    ELSE IF NoneVal \in Range(raw_tags.items)
         THEN [st EXCEPT !.exc = "AttributeError"]
    ELSE [st EXCEPT !.payload.raw =
                        SortedSet({Lower(t) : t \in Range(raw_tags.items)})]

\* lines 96-102: the confidences of the entries that carry one
Confidences(equipment_types, point_types) ==
    LET sel(e) == e.confidence # "absent"
    IN  [i \in 1..Len(SelectSeq(equipment_types, sel) \o
                       SelectSeq(point_types, sel)) |->
            (SelectSeq(equipment_types, sel) \o
             SelectSeq(point_types, sel))[i].confidence]

RECURSIVE SumTenths(_)
SumTenths(cs) == IF cs = <<>> THEN 0 ELSE ConfTenths(Head(cs)) + SumTenths(Tail(cs))

\* lines 104-105: sum(confidences) / len(confidences); a confidence that is
\* not a number makes sum() raise a TypeError
ConfStep(equipment_types, point_types, st) ==
    IF st.exc # "none" THEN st
    ELSE LET cs == Confidences(equipment_types, point_types) IN
         IF cs = <<>> THEN st
         ELSE IF \E i \in 1..Len(cs) : ~IsNumber(cs[i])
              THEN [st EXCEPT !.exc = "TypeError"]
         ELSE [st EXCEPT !.payload.gconf =
                             [num |-> SumTenths(cs), den |-> Len(cs)]]

\* lines 69-105: the body of the try block once the service answered 200
ParseStep(r) ==
    LET st0 == [payload |-> EmptyPayload, exc |-> "none"] IN
    IF ~r.json THEN [st0 EXCEPT !.exc = "ValueError"]
    ELSE IF ~r.data.dict THEN [st0 EXCEPT !.exc = "AttributeError"]
    ELSE IF ~r.data.equipment_types.iter THEN [st0 EXCEPT !.exc = "TypeError"]
    ELSE LET st1 == EquipLoop(r.data.equipment_types.items, st0) IN
         IF st1.exc # "none" THEN st1
         ELSE IF ~r.data.point_types.iter THEN [st1 EXCEPT !.exc = "TypeError"]
         ELSE LET st2 == PointLoop(r.data.point_types.items, st1)
                  st3 == RawStep(r.data.raw_tags, st2)
              IN ConfStep(r.data.equipment_types.items,
                          r.data.point_types.items, st3)

\* lines 56-105: the try block; "returned" tells the early return of line 67
TryBlock(r) ==
    IF r.kind = "timeout"
    THEN [payload |-> EmptyPayload, exc |-> "Timeout"]
    ELSE IF r.kind = "connection_error"
    THEN [payload |-> EmptyPayload, exc |-> "ConnectionError"]
    ELSE IF r.kind = "request_error"
    THEN [payload |-> EmptyPayload, exc |-> "RequestException"]
    ELSE IF r.kind = "status"
    THEN [payload |-> EmptyPayload, exc |-> "none"]
    ELSE ParseStep(r)

\* the exceptions raised in the try block, all of them subclasses of Exception
Exceptions ==
    {"Timeout", "ConnectionError", "RequestException", "ValueError",
     "AttributeError", "TypeError"}

\* a bug: the handlers without the final "except Exception"
CaughtOnlyRequests(exc) == exc \in {"Timeout", "ConnectionError"}

\* a bug: the timeout is the only failure handled
CaughtOnlyTimeout(exc) == exc = "Timeout"

\* lines 109-114: except Timeout, except ConnectionError, except Exception
Caught(exc) == exc \in {"Timeout", "ConnectionError"} \/ exc \in Exceptions

\* ground_text(text, max_length) when the service answers r: the payload
\* returned, whether the service was called, whether an exception escaped
ground_text(t, max_length, r) ==
    IF PrepareText(t, max_length) = <<>>
    THEN [payload |-> EmptyPayload, called |-> FALSE, raised |-> FALSE,
          sent |-> <<>>]
    ELSE LET st == TryBlock(r) IN
         IF st.exc = "none" \/ Caught(st.exc)
         THEN [payload |-> st.payload, called |-> TRUE, raised |-> FALSE,
               sent |-> PrepareText(t, max_length)]
         ELSE [payload |-> None, called |-> TRUE, raised |-> TRUE,
               sent |-> PrepareText(t, max_length)]

\* ground_query(query)
ground_query(query, r) == ground_text(query, QueryMaxLength, r)

----------------------------------------------------------------------------
(* app/services/retrieval.py: build_grounded_filter                        *)

HIGH_VALUE_EQUIP ==
    {"vav", "ahu", "fcu", "rtu", "chiller", "boiler", "pump", "fan"}

GENERIC_EQUIP == {"actuator", "meter", "sensor", "controller"}

\* the value None of an Optional[Filter]
NoFilter == [none |-> TRUE, should |-> <<>>]

\* FieldCondition(key=k, match=MatchAny(any=values))
FieldCondition(k, values) == [key |-> k, any |-> values]

\* Filter(should=conditions)
Filter(conditions) == [none |-> FALSE, should |-> conditions]

\* a bug: any() where the code has all()
GenericOnlyAny(equip) ==
    \E i \in 1..Len(equip) : equip[i] \in GENERIC_EQUIP

\* a bug: the check applies to a non-empty list only
GenericOnlyNonEmpty(equip) ==
    /\ equip # <<>>
    /\ ~(\E i \in 1..Len(equip) : equip[i] \in HIGH_VALUE_EQUIP)
    /\ \A i \in 1..Len(equip) : equip[i] \in GENERIC_EQUIP

\* lines 48-50: not has_high_value and all(e in GENERIC_EQUIP for e in equip)
GenericOnly(equip) ==
    /\ ~(\E i \in 1..Len(equip) : equip[i] \in HIGH_VALUE_EQUIP)
    /\ \A i \in 1..Len(equip) : equip[i] \in GENERIC_EQUIP

\* lines 57-75: one condition for each non-empty field
Conditions(qc) ==
    (IF qc.equip # <<>>
     THEN <<FieldCondition("equip", qc.equip)>> ELSE <<>>)
    \o (IF qc.brick_equip # <<>>
        THEN <<FieldCondition("brick_equip", qc.brick_equip)>> ELSE <<>>)
    \o (IF qc.ptags # <<>>
        THEN <<FieldCondition("ptags", qc.ptags)>> ELSE <<>>)

\* a bug: a builder without either of its None returns
build_filter_always(qc) == Filter(Conditions(qc))

\* a bug: only the first condition reaches the filter
build_filter_merged(qc) ==
    IF GenericOnly(qc.equip) THEN NoFilter
    ELSE IF Conditions(qc) = <<>> THEN NoFilter
    ELSE Filter(<<Conditions(qc)[1]>>)

build_grounded_filter(qc) ==
    IF GenericOnly(qc.equip) THEN NoFilter
    ELSE IF Conditions(qc) = <<>> THEN NoFilter
    ELSE Filter(Conditions(qc))

----------------------------------------------------------------------------
(* The vector store, as the searches of grounded_retrieve see it           *)

ScoreOne == 100 * 1000

\* the payload field a condition reads
Field(d, k) ==
    CASE k = "equip" -> d.equip
      [] k = "brick_equip" -> d.brick_equip
      [] k = "ptags" -> d.ptags

\* MatchAny: the stored field holds one of the values
MatchAny(d, c) == Range(Field(d, c.key)) \cap Range(c.any) # {}

\* a bug: Filter.must, a point matches if ALL conditions hold
MatchesAll(d, f) == \A i \in 1..Len(f.should) : MatchAny(d, f.should[i])

\* Filter.should: a point matches if ANY condition holds
Matches(d, f) == \E i \in 1..Len(f.should) : MatchAny(d, f.should[i])

\* index.as_retriever(similarity_top_k=k).retrieve(query_text)
PlainSearch(k) == Take(store, k)

\* client.query_points(query_filter=f, limit=n)
FilteredSearch(f, n) == Take(SelectSeq(store, LAMBDA d : Matches(d, f)), n)

----------------------------------------------------------------------------
(* app/services/retrieval.py: rerank_by_overlap                            *)

BoostEquip == 15
BoostBrick == 13
BoostPtags == 12
BoostNone == 10

\* len(set(a) & set(b))
Overlap(a, b) == Cardinality(Range(a) \cap Range(b))

\* a bug: the three tests chained with elif, only the first overlap counts
BoostFirstOnly(n, qc) ==
    (IF Overlap(qc.equip, n.equip) > 0 THEN BoostEquip
     ELSE IF Overlap(qc.brick_equip, n.brick_equip) > 0 THEN BoostBrick
     ELSE IF Overlap(qc.ptags, n.ptags) > 0 THEN BoostPtags
     ELSE BoostNone) * BoostNone * BoostNone

\* lines 118-124, the three factors in tenths
Boost(n, qc) ==
    (IF Overlap(qc.equip, n.equip) > 0 THEN BoostEquip ELSE BoostNone)
    * (IF Overlap(qc.brick_equip, n.brick_equip) > 0
       THEN BoostBrick ELSE BoostNone)
    * (IF Overlap(qc.ptags, n.ptags) > 0 THEN BoostPtags ELSE BoostNone)

\* a NodeWithScore whose score is None
NoScore == -1

\* line 127: node_with_score.score if node_with_score.score else 0.0
OriginalScore(n) == IF n.score = NoScore THEN 0 ELSE n.score

\* lines 127-128: original_score * boost
BoostedScore(n, qc) ==
    (OriginalScore(n) * Boost(n, qc)) \div (BoostNone * BoostNone * BoostNone)

\* line 135: a new NodeWithScore on the same node
Reranked(n, qc) == [n EXCEPT !.score = BoostedScore(n, qc)]

\* a bug: a descending sort that puts x before the elements of equal score
RECURSIVE InsertDescUnstable(_, _)
InsertDescUnstable(x, s) ==
    IF s = <<>> THEN <<x>>
    ELSE IF Head(s).score > x.score
         THEN <<Head(s)>> \o InsertDescUnstable(x, Tail(s))
    ELSE <<x>> \o s

\* list.sort(key=score, reverse=True) is stable: x goes after every element
\* whose score is at least its own
RECURSIVE InsertDesc(_, _)
InsertDesc(x, s) ==
    IF s = <<>> THEN <<x>>
    ELSE IF Head(s).score >= x.score THEN <<Head(s)>> \o InsertDesc(x, Tail(s))
    ELSE <<x>> \o s

RECURSIVE SortDesc(_)
SortDesc(s) ==
    IF s = <<>> THEN <<>>
    ELSE InsertDesc(s[Len(s)], SortDesc(SubSeq(s, 1, Len(s) - 1)))

rerank_by_overlap(ns, qc) ==
    SortDesc([i \in 1..Len(ns) |-> Reranked(ns[i], qc)])

----------------------------------------------------------------------------
(* Inputs of the model                                                     *)

EmptyList == [iter |-> TRUE, items |-> <<>>]

\* a JSON null where a list is expected
NullList == [iter |-> FALSE, items |-> <<>>]

EquipEntry(k, b, c) ==
    [dict |-> TRUE, haystack_kind |-> k, brick_class |-> b, confidence |-> c]

\* an entry of equipment_types that is not an object
BadEquipEntry ==
    [dict |-> FALSE, haystack_kind |-> NoneVal, brick_class |-> NoneVal,
     confidence |-> "absent"]

PointEntry(tags, c) == [dict |-> TRUE, haystack_tags |-> tags, confidence |-> c]

\* an entry of point_types that is not an object
BadPointEntry == [dict |-> FALSE, haystack_tags |-> <<>>, confidence |-> "absent"]

NoData ==
    [dict |-> FALSE, equipment_types |-> EmptyList, point_types |-> EmptyList,
     raw_tags |-> EmptyList]

\* the service answered 200 with the JSON object {equipment_types: e,
\* point_types: p, raw_tags: w}
OkResponse(e, p, w) ==
    [kind |-> "ok", json |-> TRUE,
     data |-> [dict |-> TRUE, equipment_types |-> e, point_types |-> p,
               raw_tags |-> w]]

\* no call was made
NoResponse == [kind |-> "none", json |-> FALSE, data |-> NoData]

\* the call failed: a timeout, no connection, another exception of requests,
\* a status other than 200
FailedResponses ==
    {[kind |-> k, json |-> FALSE, data |-> NoData] :
        k \in {"timeout", "connection_error", "request_error", "status"}}

\* the service answered 200 with a body of the wrong shape: not JSON, not an
\* object
MalformedBodies ==
    {[kind |-> "ok", json |-> FALSE, data |-> NoData],
     [kind |-> "ok", json |-> TRUE, data |-> NoData]}

\* what the service detects in a query: a VAV box, a sensor, a VAV box
\* without confidence, a damper; a zone temperature point
QueryEquipEntries ==
    {EquipEntry("vav", "VAV", "0.9"), EquipEntry("sensor", NoneVal, "0.3"),
     EquipEntry("vav", NoneVal, "absent"), BadEquipEntry}

QueryPointEntries == {PointEntry(<<"zone", "temp">>, "0.9")}

QueryResponses ==
    FailedResponses \cup {[kind |-> "ok", json |-> FALSE, data |-> NoData]}
    \cup {OkResponse([iter |-> TRUE, items |-> e],
                     [iter |-> TRUE, items |-> p], EmptyList) :
            e \in SeqsUpTo(QueryEquipEntries, MaxQueryTypes),
            p \in SeqsUpTo(QueryPointEntries, MaxQueryTypes)}

\* a blank query and a query with words in it
QueryTexts == {<<" ">>, <<"x">>}

Pct(p) == p * 1000

Doc(s, e, b, p) == [score |-> s, equip |-> e, brick_equip |-> b, ptags |-> p]

\* the chunks of the collection: without grounding metadata, with a point
\* tag, with an equipment kind, with both, with an ontology class
DocKinds ==
    {Doc(Pct(100), <<>>, <<>>, <<>>),
     Doc(Pct(100), <<>>, <<>>, <<"zone temp">>),
     Doc(Pct(80), <<"vav">>, <<>>, <<>>),
     Doc(Pct(75), <<"vav">>, <<>>, <<"zone temp">>),
     Doc(Pct(50), <<>>, <<"VAV">>, <<>>)}

\* the collections: the search returns the points by descending similarity
Stores ==
    {[i \in 1..Len(ks) |->
         [id |-> i, score |-> ks[i].score, equip |-> ks[i].equip,
          brick_equip |-> ks[i].brick_equip, ptags |-> ks[i].ptags]] :
       ks \in {s \in SeqsUpTo(DocKinds, MaxDocs) :
                 \A i \in 1..Len(s) - 1 : s[i].score >= s[i + 1].score}}

\* RETRIEVAL_MODE, GROUNDED_MIN_CONF (tenths), GROUNDED_LIMIT_MULT
DefaultMinConf == 6
DefaultLimitMult == 4

Configs ==
    {[mode |-> "vanilla", minConf |-> DefaultMinConf,
      limitMult |-> DefaultLimitMult]}
    \cup {[mode |-> "grounded", minConf |-> m, limitMult |-> l] :
            m \in {0, DefaultMinConf}, l \in {1, DefaultLimitMult}}

----------------------------------------------------------------------------
(* app/services/retrieval.py: grounded_retrieve, called by retrieve_only   *)

NoResult == [status |-> "none", items |-> <<>>]
Returned(ns) == [status |-> "returned", items |-> ns]
Raised == [status |-> "raised", items |-> <<>>]

NoHttpResponse == [status |-> 0, scores |-> <<>>]

Call(op, n, ok) == [op |-> op, limit |-> n, ok |-> ok]

\* a bug: the comparison the wrong way round
BelowMinConfReversed(g) == g.num > minConf * g.den

\* gconf < GROUNDED_MIN_CONF, for the mean num/den in tenths
BelowMinConf(g) == g.num < minConf * g.den

\* a field of the request body: a string, or absent (None)
Str(cs) == [given |-> TRUE, chars |-> cs]
NoStr == [given |-> FALSE, chars |-> <<>>]

NoRequest == [q |-> NoStr, query |-> NoStr]

\* _index_cache = None
NoHandle == [by |-> "none", n |-> 0]

\* no collection of that name in the vector store
NoCollection == [exists |-> FALSE, points |-> {}]

requestVars ==
    <<mode, minConf, limitMult, store, text, maxLength, topK, req>>

attachVars == <<chunks, chunksIn, useGrounding, available, cursor>>
cacheVars == <<indexCache, callers>>
ingestVars == <<files, collection, ingests>>

\* what a retrieval leaves alone
otherVars == <<attachVars, cacheVars, ingestVars>>

\* no add_grounding_metadata under way
AttachIdle ==
    /\ chunks = <<>>
    /\ chunksIn = <<>>
    /\ useGrounding = FALSE
    /\ available = "unknown"
    /\ cursor = 0

\* the process has just started: nothing cached, nobody asking
CacheIdle == indexCache = NoHandle /\ callers = <<>>

\* nothing ingested
IngestIdle == files = {} /\ collection = NoCollection /\ ingests = <<>>

Init ==
    /\ pc = "start"
    /\ \E c \in Configs :
          mode = c.mode /\ minConf = c.minConf /\ limitMult = c.limitMult
    /\ store \in Stores
    /\ text \in QueryTexts
    /\ maxLength = QueryMaxLength
    /\ topK \in 1..MaxTopK
    /\ resp = NoResponse
    /\ concepts = EmptyPayload
    /\ qfilter = NoFilter
    /\ nodes = <<>>
    /\ result = NoResult
    /\ response = NoHttpResponse
    /\ calls = <<>>
    /\ req = [q |-> Str(text), query |-> NoStr]
    /\ AttachIdle
    /\ CacheIdle
    /\ IngestIdle

\* retriever = index.as_retriever(similarity_top_k=top_k);
\* return retriever.retrieve(query_text): the search answers or fails
PlainRetrieve ==
    \/ /\ result' = Returned(PlainSearch(topK))
       /\ calls' = Append(calls, Call("plain_search", topK, TRUE))
       /\ pc' = "done"
    \/ /\ result' = Raised
       /\ calls' = Append(calls, Call("plain_search", topK, FALSE))
       /\ pc' = "raised"

\* a bug: the mode is not looked at, the query is grounded in any mode
VanillaRetrieveGrounds ==
    /\ pc = "start"
    /\ mode # "grounded"
    /\ \E r \in QueryResponses :
          LET g == ground_text(text, QueryMaxLength, r) IN
          /\ resp' = IF g.called THEN r ELSE NoResponse
          /\ calls' = Append(calls, Call("ground_query", 0, ~g.raised))
          /\ concepts' = IF g.raised THEN concepts ELSE g.payload
    /\ pc' = "grounded"
    /\ UNCHANGED <<requestVars, otherVars, qfilter, nodes, result, response>>

\* lines 167-172
VanillaRetrieve ==
    /\ pc = "start"
    /\ mode # "grounded"
    /\ PlainRetrieve
    /\ UNCHANGED <<requestVars, otherVars, resp, concepts, qfilter, nodes, response>>

\* line 179: query_concepts = ground_query(query_text)
GroundQuery ==
    /\ pc = "start"
    /\ mode = "grounded"
    /\ \E r \in QueryResponses :
          LET g == ground_query(text, r) IN
          /\ resp' = IF g.called THEN r ELSE NoResponse
          /\ calls' = calls \o <<Call("ground_query", 0, ~g.raised)>>
                        \o (IF g.called
                            THEN <<Call("post_ground", Len(g.sent),
                                        r.kind = "ok")>>
                            ELSE <<>>)
          /\ IF g.raised
             THEN /\ result' = Raised
                  /\ pc' = "raised"
                  /\ UNCHANGED concepts
             ELSE /\ concepts' = g.payload
                  /\ pc' = "grounded"
                  /\ UNCHANGED result
    /\ UNCHANGED <<requestVars, otherVars, qfilter, nodes, response>>

\* a bug: the fallback result goes through the reranker
ConfidenceFallbackReranked ==
    /\ pc = "grounded"
    /\ BelowMinConf(concepts.gconf)
    /\ \/ /\ result' = Returned(rerank_by_overlap(PlainSearch(topK), concepts))
          /\ calls' = Append(calls, Call("plain_search", topK, TRUE))
          /\ pc' = "done"
       \/ /\ result' = Raised
          /\ calls' = Append(calls, Call("plain_search", topK, FALSE))
          /\ pc' = "raised"
    /\ UNCHANGED <<requestVars, otherVars, resp, concepts, qfilter, nodes, response>>

\* lines 190-195: the confidence is below the threshold
ConfidenceFallback ==
    /\ pc = "grounded"
    /\ BelowMinConf(concepts.gconf)
    /\ PlainRetrieve
    /\ UNCHANGED <<requestVars, otherVars, resp, concepts, qfilter, nodes, response>>

\* line 198: qdrant_filter = build_grounded_filter(query_concepts)
BuildFilter ==
    /\ pc = "grounded"
    /\ ~BelowMinConf(concepts.gconf)
    /\ qfilter' = build_grounded_filter(concepts)
    /\ calls' = Append(calls, Call("build_filter", 0, TRUE))
    /\ pc' = "filtered"
    /\ UNCHANGED <<requestVars, otherVars, resp, concepts, nodes, result, response>>

\* a bug: the filtered search asks for top_k candidates, not for the multiple
OverfetchTopKOnly ==
    /\ pc = "filtered"
    /\ ~qfilter.none
    /\ \/ /\ nodes' = FilteredSearch(qfilter, topK)
          /\ calls' = Append(calls, Call("filtered_search", topK, TRUE))
          /\ pc' = "fetched"
          /\ UNCHANGED result
       \/ /\ calls' = Append(calls, Call("filtered_search", topK, FALSE))
          /\ result' = Raised
          /\ pc' = "raised"
          /\ UNCHANGED nodes
    /\ UNCHANGED <<requestVars, otherVars, resp, concepts, qfilter, response>>

\* a bug: the fallback searches with the overfetch limit
NoFilterFallbackOverfetch ==
    /\ pc = "filtered"
    /\ qfilter.none
    /\ \/ /\ result' = Returned(PlainSearch(topK * limitMult))
          /\ calls' = Append(calls, Call("plain_search", topK, TRUE))
          /\ pc' = "done"
       \/ /\ result' = Raised
          /\ calls' = Append(calls, Call("plain_search", topK, FALSE))
          /\ pc' = "raised"
    /\ UNCHANGED <<requestVars, otherVars, resp, concepts, qfilter, nodes, response>>

\* lines 200-205: no filter
NoFilterFallback ==
    /\ pc = "filtered"
    /\ qfilter.none
    /\ PlainRetrieve
    /\ UNCHANGED <<requestVars, otherVars, resp, concepts, qfilter, nodes, response>>

\* a bug: a failed filtered search is caught and answered by a plain search
OverfetchFallsBack ==
    /\ pc = "filtered"
    /\ ~qfilter.none
    /\ \/ /\ nodes' = FilteredSearch(qfilter, topK * limitMult)
          /\ calls' = Append(calls,
                             Call("filtered_search", topK * limitMult, TRUE))
          /\ pc' = "fetched"
          /\ UNCHANGED result
       \/ /\ calls' = calls \o
                        <<Call("filtered_search", topK * limitMult, FALSE),
                          Call("plain_search", topK, TRUE)>>
          /\ result' = Returned(PlainSearch(topK))
          /\ pc' = "done"
          /\ UNCHANGED nodes
    /\ UNCHANGED <<requestVars, otherVars, resp, concepts, qfilter, response>>

\* lines 208-236: the filtered search with the higher limit; a failure of the
\* embedding or of the search is not caught
Overfetch ==
    /\ pc = "filtered"
    /\ ~qfilter.none
    /\ \/ /\ nodes' = FilteredSearch(qfilter, topK * limitMult)
          /\ calls' = Append(calls,
                             Call("filtered_search", topK * limitMult, TRUE))
          /\ pc' = "fetched"
          /\ UNCHANGED result
       \/ /\ calls' = Append(calls,
                             Call("filtered_search", topK * limitMult, FALSE))
          /\ result' = Raised
          /\ pc' = "raised"
          /\ UNCHANGED nodes
    /\ UNCHANGED <<requestVars, otherVars, resp, concepts, qfilter, response>>

\* a bug: the empty candidate list is returned, no second search
EmptyFallbackReturnsEmpty ==
    /\ pc = "fetched"
    /\ Len(nodes) = 0
    /\ result' = Returned(nodes)
    /\ pc' = "done"
    /\ UNCHANGED <<requestVars, otherVars, resp, concepts, qfilter, nodes, response, calls>>

\* a bug: the fallback is taken whenever fewer than top_k candidates came
EmptyFallbackBelowTopK ==
    /\ pc = "fetched"
    /\ Len(nodes) < topK
    /\ PlainRetrieve
    /\ UNCHANGED <<requestVars, otherVars, resp, concepts, qfilter, nodes, response>>

\* lines 241-246: the filter matched nothing
EmptyFallback ==
    /\ pc = "fetched"
    /\ Len(nodes) = 0
    /\ PlainRetrieve
    /\ UNCHANGED <<requestVars, otherVars, resp, concepts, qfilter, nodes, response>>

\* a bug: the reranked candidates are returned without the cut to top_k
RerankNoTruncate ==
    /\ pc = "fetched"
    /\ Len(nodes) # 0
    /\ result' = Returned(rerank_by_overlap(nodes, concepts))
    /\ pc' = "done"
    /\ UNCHANGED <<requestVars, otherVars, resp, concepts, qfilter, nodes, response, calls>>

\* a bug: the first top_k of the fetched candidates are kept, then reranked
RerankAfterTruncate ==
    /\ pc = "fetched"
    /\ Len(nodes) # 0
    /\ result' = Returned(rerank_by_overlap(Take(nodes, topK), concepts))
    /\ pc' = "done"
    /\ UNCHANGED <<requestVars, otherVars, resp, concepts, qfilter, nodes, response, calls>>

\* lines 252-266: rerank, return the first top_k
RerankTruncate ==
    /\ pc = "fetched"
    /\ Len(nodes) # 0
    /\ result' = Returned(Take(rerank_by_overlap(nodes, concepts), topK))
    /\ pc' = "done"
    /\ UNCHANGED <<requestVars, otherVars, resp, concepts, qfilter, nodes, response, calls>>

\* retrieve_only, lines 68-83: the scores of the nodes, or status 500
RetrieveRespond ==
    /\ pc \in {"done", "raised"}
    /\ response' =
          IF pc = "done"
          THEN [status |-> 200,
                scores |-> [i \in 1..Len(result.items) |-> result.items[i].score]]
          ELSE [status |-> 500, scores |-> <<>>]
    /\ pc' = "responded"
    /\ UNCHANGED <<requestVars, otherVars, resp, concepts, qfilter, nodes, result, calls>>

Next ==
    \/ VanillaRetrieve
    \/ GroundQuery
    \/ ConfidenceFallback
    \/ BuildFilter
    \/ NoFilterFallback
    \/ Overfetch
    \/ EmptyFallback
    \/ RerankTruncate
    \/ RetrieveRespond

Spec == Init /\ [][Next]_vars

----------------------------------------------------------------------------
(* ground_text on its own: any text, any answer of the service             *)

Texts == SeqsUpTo({" ", "x"}, MaxText)

\* entries of equipment_types: a VAV box, a sensor, an entry with a
\* confidence and no kind, an entry without confidence, a non-object
EquipEntries ==
    {EquipEntry("vav", "VAV", "0.9"), EquipEntry("sensor", NoneVal, "0.3"),
     EquipEntry(NoneVal, NoneVal, "0.6"), EquipEntry("vav", NoneVal, "absent"),
     BadEquipEntry}

\* entries of point_types: a point, an entry with a confidence and no tags,
\* tags that are not strings, a confidence that is not a number, a non-object
PointEntries ==
    {PointEntry(<<"zone", "temp">>, "0.9"), PointEntry(<<>>, "0.3"),
     PointEntry(<<NoneVal>>, "absent"), PointEntry(<<"zone", "temp">>, "high"),
     BadPointEntry}

RawLists ==
    {EmptyList, NullList, [iter |-> TRUE, items |-> <<"Temp", "temp", "AIR">>],
     [iter |-> TRUE, items |-> <<NoneVal>>]}

GroundResponses ==
    FailedResponses \cup MalformedBodies
    \cup {OkResponse(e, p, w) :
            e \in {NullList} \cup
                  {[iter |-> TRUE, items |-> x] :
                      x \in SeqsUpTo(EquipEntries, MaxEquipTypes)},
            p \in {NullList} \cup
                  {[iter |-> TRUE, items |-> x] :
                      x \in SeqsUpTo(PointEntries, MaxPointTypes)},
            w \in RawLists}

InitGround ==
    /\ pc = "g_start"
    /\ mode = "vanilla"
    /\ minConf = DefaultMinConf
    /\ limitMult = DefaultLimitMult
    /\ store = <<>>
    /\ text \in Texts
    /\ maxLength \in {1, DefaultMaxLength}
    /\ topK = 1
    /\ resp = NoResponse
    /\ concepts = EmptyPayload
    /\ qfilter = NoFilter
    /\ nodes = <<>>
    /\ result = NoResult
    /\ response = NoHttpResponse
    /\ calls = <<>>
    /\ req = NoRequest
    /\ AttachIdle
    /\ CacheIdle
    /\ IngestIdle

\* one call of ground_text(text, max_length)
GroundText ==
    /\ pc = "g_start"
    /\ \E r \in GroundResponses :
          LET g == ground_text(text, maxLength, r) IN
          /\ resp' = IF g.called THEN r ELSE NoResponse
          /\ calls' = IF g.called
                      THEN <<Call("post_ground", Len(g.sent), r.kind = "ok")>>
                      ELSE <<>>
          /\ IF g.raised
             THEN /\ result' = Raised
                  /\ pc' = "g_raised"
                  /\ UNCHANGED concepts
             ELSE /\ concepts' = g.payload
                  /\ result' = Returned(<<>>)
                  /\ pc' = "g_done"
    /\ UNCHANGED <<requestVars, otherVars, qfilter, nodes, response>>

NextGround == GroundText

SpecGround == InitGround /\ [][NextGround]_vars

----------------------------------------------------------------------------
(* build_grounded_filter on its own: any query concepts                    *)

\* a high-value kind, two generic kinds, a kind of neither set
FilterEquipKinds == {"vav", "sensor", "meter", "damper"}

QueryConcepts ==
    {[equip |-> e, brick_equip |-> b, ptags |-> p, raw |-> <<>>,
      gconf |-> [num |-> 9, den |-> 1]] :
        e \in SeqsUpTo(FilterEquipKinds, MaxField),
        b \in SeqsUpTo({"VAV", "AHU"}, MaxField),
        p \in SeqsUpTo({"zone temp"}, MaxField)}

InitFilter ==
    /\ pc = "f_start"
    /\ mode = "grounded"
    /\ minConf = DefaultMinConf
    /\ limitMult = DefaultLimitMult
    /\ store = <<>>
    /\ text = <<>>
    /\ maxLength = QueryMaxLength
    /\ topK = 1
    /\ resp = NoResponse
    /\ concepts \in QueryConcepts
    /\ qfilter = NoFilter
    /\ nodes = <<>>
    /\ result = NoResult
    /\ response = NoHttpResponse
    /\ calls = <<>>
    /\ req = NoRequest
    /\ AttachIdle
    /\ CacheIdle
    /\ IngestIdle

\* one call of build_grounded_filter(query_concepts)
ApplyFilterBuilder ==
    /\ pc = "f_start"
    /\ qfilter' = build_grounded_filter(concepts)
    /\ pc' = "f_done"
    /\ UNCHANGED <<requestVars, otherVars, resp, concepts, nodes, result, response, calls>>

NextFilter == ApplyFilterBuilder

SpecFilter == InitFilter /\ [][NextFilter]_vars

----------------------------------------------------------------------------
(* rerank_by_overlap on its own: any candidates in any order               *)

\* the candidates: the chunks of DocKinds and a chunk that has no score
CandKinds == DocKinds \cup {Doc(NoScore, <<"vav">>, <<>>, <<>>)}

Candidates ==
    {[i \in 1..Len(ks) |->
         [id |-> i, score |-> ks[i].score, equip |-> ks[i].equip,
          brick_equip |-> ks[i].brick_equip, ptags |-> ks[i].ptags]] :
       ks \in SeqsUpTo(CandKinds, MaxCands)}

Concepts(e, b, p) ==
    [equip |-> e, brick_equip |-> b, ptags |-> p, raw |-> <<>>,
     gconf |-> [num |-> 9, den |-> 1]]

RerankConcepts ==
    {Concepts(<<>>, <<>>, <<>>),
     Concepts(<<"vav">>, <<>>, <<>>),
     Concepts(<<"vav">>, <<>>, <<"zone temp">>),
     Concepts(<<"vav">>, <<"VAV">>, <<"zone temp">>)}

InitRerank ==
    /\ pc = "r_start"
    /\ mode = "grounded"
    /\ minConf = DefaultMinConf
    /\ limitMult = DefaultLimitMult
    /\ store = <<>>
    /\ text = <<>>
    /\ maxLength = QueryMaxLength
    /\ topK = 1
    /\ resp = NoResponse
    /\ concepts \in RerankConcepts
    /\ qfilter = NoFilter
    /\ nodes \in Candidates
    /\ result = NoResult
    /\ response = NoHttpResponse
    /\ calls = <<>>
    /\ req = NoRequest
    /\ AttachIdle
    /\ CacheIdle
    /\ IngestIdle

\* a bug: the adjusted score is written into the candidate that was handed in
ApplyRerankInPlace ==
    /\ pc = "r_start"
    /\ nodes' = [i \in 1..Len(nodes) |-> Reranked(nodes[i], concepts)]
    /\ result' = Returned(rerank_by_overlap(nodes, concepts))
    /\ pc' = "r_done"
    /\ UNCHANGED <<requestVars, otherVars, resp, concepts, qfilter, response, calls>>

\* one call of rerank_by_overlap(nodes, query_concepts)
ApplyRerank ==
    /\ pc = "r_start"
    /\ result' = Returned(rerank_by_overlap(nodes, concepts))
    /\ pc' = "r_done"
    /\ UNCHANGED <<requestVars, otherVars, resp, concepts, qfilter, nodes, response, calls>>

NextRerank == ApplyRerank

SpecRerank == InitRerank /\ [][NextRerank]_vars

----------------------------------------------------------------------------
(* app/services/indexing.py: add_grounding_metadata                        *)

\* no retrieval under way
RetrievalIdle ==
    /\ mode = "vanilla"
    /\ minConf = DefaultMinConf
    /\ limitMult = DefaultLimitMult
    /\ store = <<>>
    /\ text = <<>>
    /\ maxLength = DefaultMaxLength
    /\ topK = 1
    /\ resp = NoResponse
    /\ concepts = EmptyPayload
    /\ qfilter = NoFilter
    /\ nodes = <<>>
    /\ result = NoResult
    /\ response = NoHttpResponse
    /\ calls = <<>>
    /\ req = NoRequest

\* a node: its content, the file_name of its metadata ("" when it has none),
\* the grounding keys of its metadata (None before they are attached)
Chunk(c, f) == [content |-> c, file_name |-> f, grounding |-> None]

\* blank and worded chunks, with and without a file name
ChunkLists ==
    SeqsUpTo({Chunk(c, f) : c \in {<<" ">>, <<"x">>}, f \in {<<>>, <<"x">>}},
             MaxChunks)

\* what GET /health gives: a status, or an exception of requests
HealthAnswers == {"200", "503", "timeout", "connection_error"}

\* grounding.py, is_grounding_available: status 200; any exception is False
is_grounding_available(h) == h = "200"

\* grounding.py, extract_grounding_payload(text, title)
extract_grounding_payload(t, title, r) ==
    ground_text(IF title # <<>> THEN Strip(title \o <<" ">> \o t) ELSE t,
                DefaultMaxLength, r)

\* what the service answers for a chunk: a failure, a body of the wrong
\* shape, no concept, a VAV box, a VAV box followed by a broken point entry
AttachResponses ==
    FailedResponses \cup MalformedBodies
    \cup {OkResponse(EmptyList, EmptyList, EmptyList),
          OkResponse([iter |-> TRUE,
                      items |-> <<EquipEntry("vav", "VAV", "0.9")>>],
                     EmptyList, EmptyList),
          OkResponse([iter |-> TRUE,
                      items |-> <<EquipEntry("vav", "VAV", "0.9")>>],
                     [iter |-> TRUE, items |-> <<BadPointEntry>>], EmptyList)}

InitAttach ==
    /\ pc = "a_start"
    /\ RetrievalIdle
    /\ chunks \in ChunkLists
    /\ chunksIn = chunks
    /\ useGrounding \in BOOLEAN
    /\ available = "unknown"
    /\ cursor = 0
    /\ CacheIdle
    /\ IngestIdle

attachFrame ==
    <<mode, minConf, limitMult, store, text, maxLength, topK, concepts,
      qfilter, nodes, response, req, chunksIn, useGrounding, cacheVars,
      ingestVars>>

\* lines 32-34: if not use_grounding: return nodes
AttachSkip ==
    /\ pc = "a_start"
    /\ ~useGrounding
    /\ result' = Returned(chunks)
    /\ pc' = "a_done"
    /\ UNCHANGED <<attachFrame, resp, calls, chunks, available, cursor>>

\* a bug: the answer of the probe is not looked at
AttachProbeIgnored ==
    /\ pc = "a_start"
    /\ useGrounding
    /\ \E h \in HealthAnswers :
          /\ available' = IF is_grounding_available(h) THEN "yes" ELSE "no"
          /\ calls' = Append(calls, Call("health", 0, h = "200"))
    /\ pc' = "a_loop"
    /\ UNCHANGED <<attachFrame, resp, chunks, cursor, result>>

\* lines 37-39: if not is_grounding_available(): return nodes
AttachProbe ==
    /\ pc = "a_start"
    /\ useGrounding
    /\ \E h \in HealthAnswers :
          /\ available' = IF is_grounding_available(h) THEN "yes" ELSE "no"
          /\ calls' = Append(calls, Call("health", 0, h = "200"))
          /\ IF is_grounding_available(h)
             THEN pc' = "a_loop" /\ UNCHANGED result
             ELSE pc' = "a_done" /\ result' = Returned(chunks)
    /\ UNCHANGED <<attachFrame, resp, chunks, cursor>>

\* lines 44-61, one turn of the loop: node.metadata.update(grounding_payload);
\* an exception of extract_grounding_payload would leave the function
AttachChunk ==
    /\ pc = "a_loop"
    /\ cursor < Len(chunks)
    /\ \E r \in AttachResponses :
          LET i == cursor + 1
              g == extract_grounding_payload(chunks[i].content,
                                             chunks[i].file_name, r)
          IN  /\ resp' = IF g.called THEN r ELSE NoResponse
              /\ calls' = IF g.called
                          THEN Append(calls,
                                      Call("post_ground", i, r.kind = "ok"))
                          ELSE calls
              /\ IF g.raised
                 THEN /\ result' = Raised
                      /\ pc' = "a_raised"
                      /\ UNCHANGED <<chunks, cursor>>
                 ELSE /\ chunks' = [chunks EXCEPT ![i].grounding = g.payload]
                      /\ cursor' = i
                      /\ UNCHANGED <<pc, result>>
    /\ UNCHANGED <<attachFrame, available>>

\* line 64: return nodes
AttachReturn ==
    /\ pc = "a_loop"
    /\ cursor = Len(chunks)
    /\ result' = Returned(chunks)
    /\ pc' = "a_done"
    /\ UNCHANGED <<attachFrame, resp, calls, chunks, available, cursor>>

NextAttach ==
    \/ AttachSkip
    \/ AttachProbe
    \/ AttachChunk
    \/ AttachReturn

SpecAttach == InitAttach /\ [][NextAttach]_vars

----------------------------------------------------------------------------
(* app/routers/query.py: retrieve_only, from the request body on           *)

\* the truth value Python gives a field: None and "" are false
Truthy(f) == f.given /\ f.chars # <<>>

\* a bug: a request without query text is read as the empty query
get_query_lenient(r) ==
    IF Truthy(r.q) THEN [raised |-> FALSE, value |-> r.q.chars]
    ELSE IF Truthy(r.query) THEN [raised |-> FALSE, value |-> r.query.chars]
    ELSE [raised |-> FALSE, value |-> <<>>]

\* models.py, QueryReq.get_query: q, else query, else ValueError
get_query(r) ==
    IF Truthy(r.q) THEN [raised |-> FALSE, value |-> r.q.chars]
    ELSE IF Truthy(r.query) THEN [raised |-> FALSE, value |-> r.query.chars]
    ELSE [raised |-> TRUE, value |-> <<>>]

\* a field is absent, empty, blank or worded
RequestFields == {NoStr, Str(<<>>), Str(<<" ">>), Str(<<"x">>)}

Requests == {[q |-> a, query |-> b] : a, b \in RequestFields}

\* the collections of at most one point
RequestStores == {s \in Stores : Len(s) <= 1}

\* the handle an ingestion or a caller of get_or_build_index constructed
Handle(by, n) == [by |-> by, n |-> n]

InitRequest ==
    /\ pc = "request"
    /\ \E c \in Configs :
          mode = c.mode /\ minConf = c.minConf /\ limitMult = c.limitMult
    /\ store \in RequestStores
    /\ text = <<>>
    /\ maxLength = QueryMaxLength
    /\ topK \in 1..MaxTopK
    /\ resp = NoResponse
    /\ concepts = EmptyPayload
    /\ qfilter = NoFilter
    /\ nodes = <<>>
    /\ result = NoResult
    /\ response = NoHttpResponse
    /\ calls = <<>>
    /\ req \in Requests
    /\ AttachIdle
    /\ indexCache \in {NoHandle, Handle("ingest", 1)}
    /\ callers = <<>>
    /\ IngestIdle

\* query.py line 57: query_text = req.get_query(), inside the try block
GetQuery ==
    /\ pc = "request"
    /\ LET g == get_query(req) IN
       IF g.raised
       THEN /\ result' = Raised
            /\ pc' = "raised"
            /\ UNCHANGED text
       ELSE /\ text' = g.value
            /\ pc' = "validated"
            /\ UNCHANGED result
    /\ UNCHANGED <<mode, minConf, limitMult, store, maxLength, topK, req,
                   otherVars, resp, concepts, qfilter, nodes, response, calls>>

\* query.py line 59: index = get_or_build_index(), with no other thread
GetOrBuildIndex ==
    /\ pc = "validated"
    /\ indexCache' = IF indexCache = NoHandle THEN Handle("caller", 1)
                     ELSE indexCache
    /\ calls' = Append(calls, Call("get_or_build_index", 0, TRUE))
    /\ pc' = "start"
    /\ UNCHANGED <<requestVars, attachVars, callers, ingestVars, resp, concepts,
                   qfilter, nodes, result, response>>

NextRequest ==
    \/ GetQuery
    \/ GetOrBuildIndex
    \/ VanillaRetrieve
    \/ GroundQuery
    \/ ConfidenceFallback
    \/ BuildFilter
    \/ NoFilterFallback
    \/ Overfetch
    \/ EmptyFallback
    \/ RerankTruncate
    \/ RetrieveRespond

SpecRequest == InitRequest /\ [][NextRequest]_vars

----------------------------------------------------------------------------
(* app/dependencies.py: get_or_build_index, called by concurrent requests  *)
(* (the handlers are plain functions, run on the threads of a pool)        *)

Callers == 1..MaxCallers

\* a thread: where it is in get_or_build_index, the handle it constructed,
\* the handle it returned, and the calls that had returned when it entered
Caller(at, built, got, before) ==
    [at |-> at, built |-> built, got |-> got, before |-> before]

cacheFrame ==
    <<pc, mode, minConf, limitMult, store, text, maxLength, topK, resp,
      concepts, qfilter, nodes, result, response, calls, req, attachVars,
      ingestVars>>

InitCache ==
    /\ pc = "serving"
    /\ RetrievalIdle
    /\ AttachIdle
    /\ indexCache = NoHandle
    /\ callers = [t \in Callers |-> Caller("idle", NoHandle, NoHandle, {})]
    /\ IngestIdle

\* line 43: if _index_cache is None
CacheTest(t) ==
    /\ callers[t].at = "idle"
    /\ callers' =
          [callers EXCEPT
              ![t].at = IF indexCache = NoHandle THEN "miss" ELSE "hit",
              ![t].before = {u \in Callers : callers[u].at = "returned"}]
    /\ UNCHANGED <<cacheFrame, indexCache>>

\* lines 45-46: VectorStoreIndex.from_vector_store(vector_store)
CacheConstruct(t) ==
    /\ callers[t].at = "miss"
    /\ callers' = [callers EXCEPT ![t].at = "built",
                                  ![t].built = Handle("caller", t)]
    /\ UNCHANGED <<cacheFrame, indexCache>>

\* line 46: _index_cache = ...
CacheStore(t) ==
    /\ callers[t].at = "built"
    /\ indexCache' = callers[t].built
    /\ callers' = [callers EXCEPT ![t].at = "stored"]
    /\ UNCHANGED cacheFrame

\* line 48: return _index_cache
CacheReturn(t) ==
    /\ callers[t].at \in {"hit", "stored"}
    /\ callers' = [callers EXCEPT ![t].at = "returned", ![t].got = indexCache]
    /\ UNCHANGED <<cacheFrame, indexCache>>

NextCache ==
    \/ \E t \in Callers : CacheTest(t)
    \/ \E t \in Callers : CacheConstruct(t)
    \/ \E t \in Callers : CacheStore(t)
    \/ \E t \in Callers : CacheReturn(t)

SpecCache == InitCache /\ [][NextCache]_vars

\* lines 51-54: set_index_cache(index), as ingest calls it with the index
\* build_index returned
SetIndexCache ==
    /\ indexCache' = Handle("ingest", 1)
    /\ UNCHANGED <<cacheFrame, callers>>

\* lines 57-60: clear_index_cache()
ClearIndexCache ==
    /\ indexCache' = NoHandle
    /\ UNCHANGED <<cacheFrame, callers>>

\* the callers of get_or_build_index beside an ingestion and a clearing of
\* the cache, each of which may come at any moment
NextCacheOps ==
    \/ \E t \in Callers : CacheTest(t)
    \/ \E t \in Callers : CacheConstruct(t)
    \/ \E t \in Callers : CacheStore(t)
    \/ \E t \in Callers : CacheReturn(t)
    \/ SetIndexCache
    \/ ClearIndexCache

SpecCacheOps == InitCache /\ [][NextCacheOps]_vars

----------------------------------------------------------------------------
(* app/routers/ingest.py: ingest, and app/services/indexing.py:            *)
(* build_index.  A file of DATA_DIR is known by the number in its name;    *)
(* the loader and the chunker are deterministic and give every file at     *)
(* least one chunk.  The grounding keys add_grounding_metadata puts on the *)
(* chunks (SpecAttach) change no count and are left out of the points.     *)

FileNames == 1..MaxFiles

\* the number of chunks the node parser makes of a file: the second file is
\* long enough for two
ChunksOf(f) == IF f = 2 THEN 2 ELSE 1

\* the point of chunk c of file f, written by the n-th call of build_index
Point(f, c, n) == [file_name |-> f, chunk |-> c, run |-> n]

\* line 159: the nodes of the documents, as the points call n stores
NodesOf(fs, n) == UNION {{Point(f, c, n) : c \in 1..ChunksOf(f)} : f \in fs}

\* lines 115-139: the file names found by scrolling through the collection
IndexedFiles(col) == {p.file_name : p \in col.points}

\* a bug: every loaded document counts as new
NewDocsAll(fs, indexed_files) == fs

\* line 142: the documents whose file name is not in indexed_files
NewDocs(fs, indexed_files) == fs \ indexed_files

\* a bug: the rebuild goes on with the collection as it is
AfterDeleteKept(col, force_rebuild) == col

\* lines 92-96: a forced rebuild deletes the collection that exists
AfterDelete(col, force_rebuild) ==
    IF force_rebuild /\ col.exists THEN NoCollection ELSE col

\* lines 98-104: the collection is created when there is none
AfterCreate(col) == IF col.exists THEN col ELSE [exists |-> TRUE, points |-> {}]

\* build_index(force_rebuild) as call n, on the files fs: the collection it
\* leaves and the calls it makes to the vector store
build_index(col, fs, force_rebuild, n) ==
    LET c1 == AfterDelete(col, force_rebuild)
        c2 == AfterCreate(c1)
        incremental == c1.exists /\ ~force_rebuild
        docs == IF incremental THEN NewDocs(fs, IndexedFiles(c2)) ELSE fs
        new_nodes == NodesOf(docs, n)
        log == <<Call("get_collection", 0, col.exists)>>
               \o (IF c1.exists # col.exists
                   THEN <<Call("delete_collection", 0, TRUE)>> ELSE <<>>)
               \o (IF ~c1.exists
                   THEN <<Call("create_collection", 0, TRUE)>> ELSE <<>>)
               \o (IF incremental
                   THEN <<Call("scroll", Cardinality(c2.points), TRUE)>>
                   ELSE <<>>)
               \o (IF incremental /\ docs = {} THEN <<>>
                   ELSE <<Call("index_nodes", Cardinality(new_nodes), TRUE)>>)
    IN  [collection |-> [c2 EXCEPT !.points = @ \cup new_nodes],
         calls |-> log]

\* what is kept of a call of build_index: its argument, the files loaded,
\* whether the collection existed and the file names it held when the call
\* began, and the points_count when it returned
IngestEntry(force, fs, col, count) ==
    [force |-> force, files |-> fs, existed |-> col.exists,
     names |-> IndexedFiles(col), count |-> count]

ingestFrame ==
    <<pc, mode, minConf, limitMult, store, text, maxLength, topK, resp,
      concepts, qfilter, nodes, result, req, attachVars, callers>>

InitIngest ==
    /\ pc = "serving"
    /\ RetrievalIdle
    /\ AttachIdle
    /\ CacheIdle
    /\ files \in SUBSET FileNames
    /\ collection = NoCollection
    /\ ingests = <<>>

\* a file is copied into DATA_DIR
AddFile ==
    /\ \E f \in FileNames \ files : files' = files \cup {f}
    /\ UNCHANGED <<ingestFrame, response, calls, indexCache, collection, ingests>>

\* a file is removed from DATA_DIR
RemoveFile ==
    /\ \E f \in files : files' = files \ {f}
    /\ UNCHANGED <<ingestFrame, response, calls, indexCache, collection, ingests>>

\* ingest.py lines 32-33: no file to ingest, status 400
IngestNoFiles ==
    /\ files = {}
    /\ response' = [status |-> 400, scores |-> <<>>]
    /\ UNCHANGED <<ingestFrame, calls, indexCache, files, collection, ingests>>

\* ingest.py lines 37-51: build_index(force_rebuild), set_index_cache(index),
\* the answer with the points_count
Ingest ==
    /\ files # {}
    /\ Len(ingests) < MaxIngests
    /\ \E force_rebuild \in BOOLEAN :
          LET n == Len(ingests) + 1
              b == build_index(collection, files, force_rebuild, n)
          IN  /\ collection' = b.collection
              /\ calls' = b.calls
              /\ indexCache' = Handle("ingest", n)
              /\ ingests' = Append(ingests,
                     IngestEntry(force_rebuild, files, collection,
                                 Cardinality(b.collection.points)))
    /\ response' = [status |-> 200, scores |-> <<>>]
    /\ UNCHANGED <<ingestFrame, files>>

NextIngest ==
    \/ AddFile
    \/ RemoveFile
    \/ IngestNoFiles
    \/ Ingest

SpecIngest == InitIngest /\ [][NextIngest]_vars

----------------------------------------------------------------------------
(* Properties                                                              *)

\* grounded_retrieve has returned or raised
Finished == pc \in {"done", "raised", "responded"}

\* the vector-store searches made so far
Searches ==
    SelectSeq(calls, LAMBDA c : c.op \in {"plain_search", "filtered_search"})

\* the retrieval made one search, the plain search with limit top_k, and its
\* outcome is the outcome of that search
PlainOutcome ==
    \/ /\ Searches = <<Call("plain_search", topK, TRUE)>>
       /\ result = Returned(PlainSearch(topK))
    \/ /\ Searches = <<Call("plain_search", topK, FALSE)>>
       /\ result = Raised

\* the chunk shares a value with the query concepts in one of the three fields
SharesConcept(d, qc) ==
    \/ Range(d.equip) \cap Range(qc.equip) # {}
    \/ Range(d.brick_equip) \cap Range(qc.brick_equip) # {}
    \/ Range(d.ptags) \cap Range(qc.ptags) # {}

\* C1: when the mode is not grounded, or the confidence of the query is below
\* the threshold, or the filter builder returns no filter, grounded_retrieve
\* returns exactly what the plain search with limit topK returns.
C1_FallbackIsPlainSearch ==
    (/\ Finished
     /\ \/ mode # "grounded"
        \/ BelowMinConf(concepts.gconf)
        \/ build_grounded_filter(concepts).none)
    => PlainOutcome

\* C1 witness: a confident query with generic equipment only, answered by the
\* plain search
C1_Witness ==
    /\ pc = "done"
    /\ mode = "grounded"
    /\ ~BelowMinConf(concepts.gconf)
    /\ concepts.equip # <<>>
    /\ qfilter.none
    /\ Len(result.items) = topK
    /\ topK < Len(store)

\* C2: the sequence grounded_retrieve returns is never longer than topK.
C2_AtMostTopK ==
    result.status = "returned" => Len(result.items) <= topK

\* C2 witness: more candidates fetched than asked for, topK of them returned
C2_Witness ==
    /\ pc = "done"
    /\ Len(nodes) > topK
    /\ Len(result.items) = topK

WellFormedPayload(p) ==
    /\ DOMAIN p = {"equip", "brick_equip", "ptags", "raw", "gconf"}
    /\ p.equip \in Seq(STRING)
    /\ p.brick_equip \in Seq(STRING)
    /\ p.ptags \in Seq(STRING)
    /\ p.raw \in Seq(STRING)
    /\ p.gconf.num \in Nat
    /\ p.gconf.den \in Nat \ {0}

\* C4: ground_text never raises; whatever the text and the outcome of the
\* call, it returns a payload of the five fields equip, brick_equip, ptags,
\* raw (lists) and gconf (a number).
C4_GroundTextNeverRaises ==
    pc \in {"g_done", "g_raised"} =>
        /\ result.status = "returned"
        /\ WellFormedPayload(concepts)

\* C4 witness: a body whose point entries break the parsing after the
\* equipment entries were read
C4_Witness ==
    /\ pc = "g_done"
    /\ resp.kind = "ok"
    /\ TryBlock(resp).exc = "TypeError"
    /\ concepts.equip # <<>>

\* C5: in grounded mode a failed grounding call (timeout, no connection,
\* status other than 200) surfaces no error and the retrieval returns the
\* plain topK search result, whatever the threshold.
C5_GroundingFailureIsPlainSearch ==
    (/\ Finished
     /\ mode = "grounded"
     /\ resp.kind \in {"timeout", "connection_error", "status"})
    => /\ Call("ground_query", 0, TRUE) \in Range(calls)
       /\ concepts = EmptyPayload
       /\ PlainOutcome

\* C5 witness: threshold 0.0, the service unreachable, the plain result
\* returned
C5_Witness ==
    /\ pc = "done"
    /\ minConf = 0
    /\ resp.kind = "connection_error"
    /\ result.items # <<>>

\* C6: a failed filtered search is propagated: it is the last call of the
\* retrieval, which raises; no retry, no plain search follows.
C6_SearchFailurePropagates ==
    \A i \in 1..Len(calls) :
        (calls[i].op = "filtered_search" /\ ~calls[i].ok) =>
            /\ i = Len(calls)
            /\ result = Raised
            /\ pc \in {"raised", "responded"}
            /\ pc = "responded" => response.status = 500

\* C6 witness: the filtered search failed and the handler answered 500
C6_Witness ==
    /\ pc = "responded"
    /\ calls # <<>>
    /\ calls[Len(calls)] = Call("filtered_search", topK * limitMult, FALSE)

\* C7 as stated: every score of a /retrieve response lies in [0.0, 1.0].
C7_ScoresWithinUnit ==
    response.status = 200 =>
        \A i \in 1..Len(response.scores) :
            0 <= response.scores[i] /\ response.scores[i] <= ScoreOne

\* the largest boost: 1.5 x 1.3 x 1.2
MaxBoostedScore ==
    (ScoreOne * BoostEquip * BoostBrick * BoostPtags)
        \div (BoostNone * BoostNone * BoostNone)

\* C7 amended: the scores of the plain path lie in [0.0, 1.0]; the scores of
\* the reranked path lie in [0.0, 2.34], the similarity times the boost.
C7_ScoresWithinBoost ==
    response.status = 200 =>
        \A i \in 1..Len(response.scores) :
            /\ 0 <= response.scores[i]
            /\ response.scores[i] <= MaxBoostedScore
            /\ nodes = <<>> => response.scores[i] <= ScoreOne

\* C7 witness: a reranked response with a score above 1.0
C7_Witness ==
    /\ response.status = 200
    /\ nodes # <<>>
    /\ \E i \in 1..Len(response.scores) : response.scores[i] > ScoreOne

\* C8: build_grounded_filter returns None when no detected kind is high-value
\* and all are generic, and a filter when a detected kind is high-value.
C8_GenericOnlyGivesNone ==
    pc = "f_done" =>
        /\ (Range(concepts.equip) \cap HIGH_VALUE_EQUIP = {}
            /\ Range(concepts.equip) \subseteq GENERIC_EQUIP)
           => qfilter.none
        /\ Range(concepts.equip) \cap HIGH_VALUE_EQUIP # {} => ~qfilter.none

\* C8 witness: the query of scenario B with a point tag, no filter built
C8_Witness ==
    /\ pc = "f_done"
    /\ concepts.equip = <<"sensor">>
    /\ concepts.ptags # <<>>
    /\ qfilter.none

\* the generic-only check of the builder lets the concepts through
PassesGenericCheck(qc) ==
    \/ Range(qc.equip) \cap HIGH_VALUE_EQUIP # {}
    \/ ~(Range(qc.equip) \subseteq GENERIC_EQUIP)

ConceptFields == {"equip", "brick_equip", "ptags"}

\* C9: past the generic-only check the filter holds one contains-any condition
\* for each non-empty field, with all values of the field, none for an empty
\* field, and a chunk matches it if any condition holds.
C9_OneConditionPerField ==
    (pc = "f_done" /\ PassesGenericCheck(concepts)) =>
        /\ ~qfilter.none
        /\ \A k \in ConceptFields :
              Cardinality({i \in 1..Len(qfilter.should) :
                              qfilter.should[i].key = k})
                 = IF Field(concepts, k) # <<>> THEN 1 ELSE 0
        /\ \A i \in 1..Len(qfilter.should) :
              /\ qfilter.should[i].key \in ConceptFields
              /\ qfilter.should[i].any = Field(concepts, qfilter.should[i].key)
        /\ \A d \in DocKinds : Matches(d, qfilter) <=> SharesConcept(d, concepts)

\* C9 witness: three non-empty fields, three conditions
C9_Witness ==
    /\ pc = "f_done"
    /\ concepts.equip = <<"damper", "vav">>
    /\ concepts.brick_equip # <<>>
    /\ concepts.ptags # <<>>
    /\ Len(qfilter.should) = 3

\* C10: build_grounded_filter never returns a filter with zero conditions:
\* three empty fields give None, a filter holds at least one condition.
C10_NoEmptyFilter ==
    pc = "f_done" =>
        /\ (concepts.equip = <<>> /\ concepts.brick_equip = <<>>
            /\ concepts.ptags = <<>>) => qfilter.none
        /\ ~qfilter.none => Len(qfilter.should) >= 1

\* C10 witness: the builder applied to three empty fields
C10_Witness ==
    /\ pc = "f_done"
    /\ concepts.equip = <<>>
    /\ concepts.brick_equip = <<>>
    /\ concepts.ptags = <<>>
    /\ qfilter.none

\* C11: the candidates rerank_by_overlap returns are in descending order of
\* adjusted score, and two candidates of equal adjusted score keep the order
\* they had in the input
C11_SortedDescStable ==
    pc = "r_done" =>
        \A i, j \in 1..Len(result.items) :
            i < j =>
                /\ result.items[i].score >= result.items[j].score
                /\ result.items[i].score = result.items[j].score
                      => result.items[i].id < result.items[j].id

\* two candidates of different original score come out with the same adjusted
\* score
C11_Witness ==
    /\ pc = "r_done"
    /\ \E i, j \in 1..Len(result.items) :
          /\ i < j
          /\ result.items[i].score = result.items[j].score
          /\ nodes[result.items[i].id].score # nodes[result.items[j].id].score

\* the candidate has an equipment overlap with the query concepts and no other
EquipOverlapOnly(n, qc) ==
    /\ Range(n.equip) \cap Range(qc.equip) # {}
    /\ Range(n.brick_equip) \cap Range(qc.brick_equip) = {}
    /\ Range(n.ptags) \cap Range(qc.ptags) = {}

\* the candidate has an equipment and a point-tag overlap, no ontology overlap
EquipAndPtagOverlap(n, qc) ==
    /\ Range(n.equip) \cap Range(qc.equip) # {}
    /\ Range(n.brick_equip) \cap Range(qc.brick_equip) = {}
    /\ Range(n.ptags) \cap Range(qc.ptags) # {}

\* the position of input candidate i in the returned list
PositionOf(i) == CHOOSE k \in 1..Len(result.items) : result.items[k].id = i

\* C12: the adjusted score of a candidate is its original score (0.0 when it
\* has none) times 1.5 for an equipment overlap, times 1.3 for an ontology
\* overlap, times 1.2 for a point-tag overlap, each factor 1.0 when the field
\* has no overlap; an equipment and point-tag overlap gives s x 1.5 x 1.2, and
\* a 0.75 candidate with both ranks before a 0.80 candidate with the equipment
\* overlap only
C12_BoostsMultiply ==
    pc = "r_done" =>
        /\ Len(result.items) = Len(nodes)
        /\ \A k \in 1..Len(result.items) :
              LET r == result.items[k]
                  n == nodes[r.id]
                  s == IF n.score = NoScore THEN 0 ELSE n.score
                  fe == IF Range(n.equip) \cap Range(concepts.equip) # {}
                        THEN 15 ELSE 10
                  fb == IF Range(n.brick_equip) \cap Range(concepts.brick_equip)
                           # {}
                        THEN 13 ELSE 10
                  fp == IF Range(n.ptags) \cap Range(concepts.ptags) # {}
                        THEN 12 ELSE 10
              IN  /\ r.score * 1000 = s * fe * fb * fp
                  /\ EquipAndPtagOverlap(n, concepts)
                        => r.score * 100 = s * 15 * 12
        /\ \A i, j \in 1..Len(nodes) :
              /\ nodes[i].score = Pct(80) /\ EquipOverlapOnly(nodes[i], concepts)
              /\ nodes[j].score = Pct(75)
              /\ EquipAndPtagOverlap(nodes[j], concepts)
              => PositionOf(j) < PositionOf(i)

\* the 0.75 candidate with both overlaps came second in the input and comes
\* first in the output, with 1.35 against 1.20
C12_Witness ==
    /\ pc = "r_done"
    /\ Len(nodes) = 2
    /\ nodes[1].score = Pct(80) /\ EquipOverlapOnly(nodes[1], concepts)
    /\ nodes[2].score = Pct(75) /\ EquipAndPtagOverlap(nodes[2], concepts)
    /\ result.items[1].id = 2 /\ result.items[1].score = Pct(135)
    /\ result.items[2].id = 1 /\ result.items[2].score = Pct(120)

\* the filtered overfetch answered, with no candidate
OverfetchCameBackEmpty ==
    /\ Call("filtered_search", topK * limitMult, TRUE) \in Range(calls)
    /\ nodes = <<>>

\* C13: in grounded mode, when the filtered overfetch returns no candidate,
\* the retrieval then makes the plain search with limit top_k and returns its
\* result as the store gave it; nothing else is searched
C13_EmptyOverfetchThenPlain ==
    /\ pc = "fetched" /\ nodes = <<>> => result = NoResult
    /\ Finished /\ OverfetchCameBackEmpty =>
          /\ mode = "grounded"
          /\ \/ /\ Searches = <<Call("filtered_search", topK * limitMult, TRUE),
                                 Call("plain_search", topK, TRUE)>>
                /\ result = Returned(PlainSearch(topK))
             \/ /\ Searches = <<Call("filtered_search", topK * limitMult, TRUE),
                                 Call("plain_search", topK, FALSE)>>
                /\ result = Raised

\* the filter matched none of the chunks of a collection that has some, and
\* the request was answered with the first top_k of them
C13_Witness ==
    /\ pc = "responded"
    /\ OverfetchCameBackEmpty
    /\ Len(store) > topK
    /\ result = Returned(Take(store, topK))
    /\ response.status = 200

\* the calls of the grounding endpoint made so far
GroundCalls == SelectSeq(calls, LAMBDA c : c.op = "post_ground")

\* C14: when use_grounding is false or the availability probe fails,
\* add_grounding_metadata makes no grounding call, leaves the metadata of
\* every node as it was and returns the input nodes
C14_DisabledIsUnchanged ==
    (~useGrounding \/ available = "no") =>
        /\ GroundCalls = <<>>
        /\ chunks = chunksIn
        /\ pc # "a_start" => pc = "a_done" /\ result = Returned(chunksIn)
        /\ ~useGrounding => calls = <<>>

\* the probe failed and the nodes came back as they were
C14_Witness ==
    /\ pc = "a_done"
    /\ useGrounding
    /\ available = "no"
    /\ Len(chunksIn) = MaxChunks
    /\ result = Returned(chunksIn)

\* the body of a 200 answer has not the shape ground_text reads: it is not
\* JSON or not an object, a list is not a list, an entry is not an object, a
\* tag is not a string, a confidence is not a number
Malformed(r) ==
    /\ r.kind = "ok"
    /\ \/ ~r.json
       \/ ~r.data.dict
       \/ ~r.data.equipment_types.iter
       \/ ~r.data.point_types.iter
       \/ ~r.data.raw_tags.iter
       \/ \E e \in Range(r.data.equipment_types.items) :
             ~e.dict \/ (e.confidence # "absent" /\ ~IsNumber(e.confidence))
       \/ \E e \in Range(r.data.point_types.items) :
             \/ ~e.dict
             \/ NoneVal \in Range(e.haystack_tags)
             \/ e.confidence # "absent" /\ ~IsNumber(e.confidence)
       \/ NoneVal \in Range(r.data.raw_tags.items)

\* the grounding of a text failed: the call failed or its answer is malformed
GroundingFailed(r) ==
    r.kind \in {"timeout", "connection_error", "request_error", "status"}
    \/ Malformed(r)

\* C15: with grounding enabled and the probe successful,
\* add_grounding_metadata goes through every node: no grounding failure makes
\* it raise, a node whose grounding failed gets the empty lists and 0.0, and
\* it returns the nodes in their input order, each with the five grounding
\* keys in its metadata
C15_EveryNodeGrounded ==
    /\ pc # "a_raised"
    /\ pc \in {"a_loop", "a_done"} /\ available = "yes" /\ cursor >= 1
        /\ GroundingFailed(resp)
        => chunks[cursor].grounding = EmptyPayload
    /\ pc = "a_done" /\ useGrounding /\ available = "yes" =>
          /\ cursor = Len(chunksIn)
          /\ result = Returned(chunks)
          /\ Len(chunks) = Len(chunksIn)
          /\ \A i \in 1..Len(chunks) :
                /\ chunks[i].content = chunksIn[i].content
                /\ chunks[i].file_name = chunksIn[i].file_name
                /\ chunks[i].grounding # None

\* the request carries no query text: q and query are absent or empty
NoQueryText == ~Truthy(req.q) /\ ~Truthy(req.query)

\* C16: a /retrieve request with neither q nor query fails before any
\* retrieval work: the handler raises and answers with an error without
\* having asked for the index handle, called the grounding service or
\* searched the vector store
C16_MissingQueryFailsFirst ==
    NoQueryText /\ pc # "request" =>
        /\ pc \in {"raised", "responded"}
        /\ result = Raised
        /\ calls = <<>>
        /\ indexCache.by # "caller"
        /\ resp = NoResponse
        /\ pc = "responded" => response.status = 500

\* a request whose q is the empty string and whose query is absent was
\* answered 500, the index handle never loaded
C16_Witness ==
    /\ pc = "responded"
    /\ req = [q |-> Str(<<>>), query |-> NoStr]
    /\ response.status = 500
    /\ indexCache = NoHandle
    /\ calls = <<>>

\* the handles the callers have constructed
Constructed ==
    {callers[t].built : t \in {u \in Callers : callers[u].built # NoHandle}}

\* C17: get_or_build_index initializes once and then shares: every caller
\* returns a constructed handle and the cache only ever holds one, and a
\* caller that enters after a call has returned constructs nothing and
\* returns the very handle that call returned
C17_InitializeOnceThenShare ==
    /\ indexCache = NoHandle \/ indexCache \in Constructed
    /\ \A t \in Callers :
          /\ callers[t].at = "returned" => callers[t].got \in Constructed
          /\ callers[t].before # {} =>
                /\ callers[t].built = NoHandle
                /\ callers[t].at = "returned" =>
                      \A u \in callers[t].before :
                          callers[t].got = callers[u].got

\* the points the n-th call of build_index stored
PointsOfRun(n) == {p \in collection.points : p.run = n}

\* the n-th call was an incremental ingestion on an existing collection
Incremental(n) == ~ingests[n].force /\ ingests[n].existed

\* the files loaded by the n-th call whose name the collection did not hold
NewFiles(n) == ingests[n].files \ ingests[n].names

Rebuild(n) == ingests[n].force /\ ingests[n].existed

\* the position of the first call of that name in the log of the last
\* build_index, 0 when it made none
FirstCall(op) ==
    IF \E k \in 1..Len(calls) : calls[k].op = op
    THEN CHOOSE k \in 1..Len(calls) :
             calls[k].op = op /\ \A j \in 1..k - 1 : calls[j].op # op
    ELSE 0

\* C19: build_index with force_rebuild true on an existing collection deletes
\* the collection, then creates it, then indexes; when it returns the
\* collection holds the points of the documents loaded in that call and no
\* other; two consecutive forced rebuilds of the same files leave the same
\* point count
C19_RebuildStartsFromNothing ==
    \A n \in 1..Len(ingests) :
        Rebuild(n) =>
            /\ n = Len(ingests) =>
                  /\ 0 < FirstCall("delete_collection")
                  /\ FirstCall("delete_collection")
                        < FirstCall("create_collection")
                  /\ FirstCall("create_collection") < FirstCall("index_nodes")
                  /\ collection.points = PointsOfRun(n)
                  /\ {p.file_name : p \in collection.points} = ingests[n].files
                  /\ ingests[n].count = Cardinality(NodesOf(ingests[n].files, n))
            /\ n > 1 /\ ingests[n - 1].force
                /\ ingests[n - 1].files = ingests[n].files
                => ingests[n].count = ingests[n - 1].count

\* an ingestion of two files, then two forced rebuilds with one of the files
\* gone: both leave the points of the file that is left
C19_Witness ==
    /\ Len(ingests) = 3
    /\ Rebuild(2) /\ Rebuild(3)
    /\ ingests[2].files = ingests[3].files
    /\ ingests[1].files # ingests[2].files
    /\ ingests[1].count > ingests[2].count
    /\ ingests[3].count = ingests[2].count
    /\ collection.points = PointsOfRun(3)

\* C20: when the service answers 200 with a body of malformed or unexpected
\* shape, ground_text returns the payload it returns when the call fails:
\* equip, brick_equip, ptags and raw empty, gconf 0.0, never a payload that
\* is filled in part
C20_MalformedGivesEmpty ==
    pc = "g_done" =>
        /\ resp.kind \in {"timeout", "connection_error", "request_error",
                           "status"}
              => concepts = EmptyPayload
        /\ Malformed(resp) => concepts = EmptyPayload

\* the payload names no concept: no equipment kind, no ontology class, no
\* point-tag phrase
NoConcepts(p) == p.equip = <<>> /\ p.brick_equip = <<>> /\ p.ptags = <<>>

\* the confidences the answer carries, those of the equipment entries first
AnswerConfidences(r) ==
    Confidences(r.data.equipment_types.items, r.data.point_types.items)

\* C21: the confidence of the payload ground_text returns is 0.0 when the
\* payload names no concept and when the grounding failed; otherwise it is
\* the arithmetic mean of the confidences the grounding call returned
C21_ConfidenceZeroOrMean ==
    pc = "g_done" =>
        IF NoConcepts(concepts) \/ resp.kind = "none" \/ GroundingFailed(resp)
        THEN concepts.gconf.num = 0
        ELSE LET cs == AnswerConfidences(resp) IN
             IF cs = <<>> THEN concepts.gconf.num = 0
             ELSE concepts.gconf.num * Len(cs)
                    = SumTenths(cs) * concepts.gconf.den

\* the positions of the characters of the text, among its first max_length,
\* that are not blank
WordPositions ==
    {i \in 1..Len(text) : i <= maxLength /\ text[i] # " "}

\* C22: ground_text cuts the text to max_length characters and then trims
\* it; when nothing is left it returns the all-empty payload and calls
\* nothing, otherwise it makes one call whose text runs from the first to the
\* last of the non-blank characters kept by the cut, no longer than
\* max_length
C22_CutThenTrim ==
    pc \in {"g_done", "g_raised"} =>
        IF WordPositions = {}
        THEN calls = <<>> /\ concepts = EmptyPayload /\ pc = "g_done"
        ELSE LET first == CHOOSE i \in WordPositions :
                              \A j \in WordPositions : i <= j
                 last == CHOOSE i \in WordPositions :
                             \A j \in WordPositions : j <= i
             IN  /\ Len(calls) = 1
                 /\ calls[1].op = "post_ground"
                 /\ calls[1].limit = last - first + 1
                 /\ calls[1].limit <= maxLength

\* the cut left the blank in front of a word, and no call was made
C22_Witness ==
    /\ pc = "g_done"
    /\ Len(text) > maxLength
    /\ Strip(text) # <<>>
    /\ calls = <<>>
    /\ concepts = EmptyPayload

\* the calls made so far are searches without a filter
OnlyPlainSearches == \A k \in 1..Len(calls) : calls[k].op = "plain_search"

\* C23: when the confidence of the query's grounding is below the minimum
\* confidence, grounded_retrieve builds no filter and makes no filtered
\* search: its only search is the plain search with limit top_k
C23_LowConfidenceSkipsFilter ==
    (/\ mode = "grounded"
     /\ pc # "start"
     /\ concepts.gconf.num < minConf * concepts.gconf.den)
    => /\ \A k \in 1..Len(calls) :
             calls[k].op \notin {"build_filter", "filtered_search"}
       /\ qfilter = NoFilter
       /\ nodes = <<>>
       /\ Finished => PlainOutcome

\* a sensor detected with confidence 0.3 against the threshold 0.6: the
\* plain search answered
C23_Witness ==
    /\ pc = "responded"
    /\ mode = "grounded"
    /\ minConf = DefaultMinConf
    /\ resp.kind = "ok"
    /\ concepts.equip = <<"sensor">>
    /\ concepts.gconf = [num |-> 3, den |-> 1]
    /\ Searches = <<Call("plain_search", topK, TRUE)>>
    /\ response.status = 200

\* C24: when the retrieval mode is not "grounded", grounded_retrieve goes
\* straight to the plain search: the grounding service is not called, no
\* filter is built, no filtered search is made
C24_VanillaIsPlainOnly ==
    mode # "grounded" =>
        /\ OnlyPlainSearches
        /\ resp = NoResponse
        /\ concepts = EmptyPayload
        /\ qfilter = NoFilter
        /\ nodes = <<>>
        /\ pc \in {"start", "done", "raised", "responded"}
        /\ Finished => PlainOutcome

\* in vanilla mode a query with words in it was answered by the plain search
\* alone, from a collection whose chunks carry grounding metadata
C24_Witness ==
    /\ pc = "responded"
    /\ mode = "vanilla"
    /\ text = <<"x">>
    /\ calls = <<Call("plain_search", topK, TRUE)>>
    /\ \E i \in 1..Len(store) : store[i].equip # <<>>
    /\ response.status = 200
    /\ Len(response.scores) = topK

\* the filtered search answered with candidates: the grounded path went on
GroundedPathTaken ==
    /\ Call("filtered_search", topK * limitMult, TRUE) \in Range(calls)
    /\ nodes # <<>>

\* C25: on the grounded path the filtered search is made with the filter
\* built from the query concepts and the limit top_k x limitMultiplier, and
\* what is returned is the first top_k of the reranked candidates, all of
\* them when fewer than top_k were fetched
C25_OverfetchThenFirstTopK ==
    /\ \A k \in 1..Len(calls) :
          calls[k].op = "filtered_search" =>
              /\ calls[k].limit = topK * limitMult
              /\ ~qfilter.none
              /\ qfilter = build_grounded_filter(concepts)
    /\ pc \in {"fetched", "done", "responded"} /\ nodes # <<>> =>
          /\ nodes = Take(SelectSeq(store, LAMBDA d : Matches(d, qfilter)),
                          topK * limitMult)
          /\ pc # "fetched" =>
                /\ result.status = "returned"
                /\ Len(result.items) = Min(topK, Len(nodes))
                /\ result.items = Take(rerank_by_overlap(nodes, concepts), topK)

\* more candidates fetched than top_k, and the first returned is not the
\* first fetched
C25_Witness ==
    /\ pc = "done"
    /\ GroundedPathTaken
    /\ limitMult = DefaultLimitMult
    /\ Len(nodes) > topK
    /\ Len(result.items) = topK
    /\ result.items[1].id # nodes[1].id

\* a returned record carries the chunk of the candidate it was made from
SameChunk(r, n) ==
    /\ r.id = n.id
    /\ r.equip = n.equip
    /\ r.brick_equip = n.brick_equip
    /\ r.ptags = n.ptags

\* C26: a call of rerank_by_overlap leaves the candidates handed in as they
\* were, scores included, and returns one record for each of them, carrying
\* the same chunk: the chunks of the output are a permutation of the chunks
\* of the input
C26_InputsUntouched ==
    [][pc = "r_start" /\ pc' = "r_done" =>
          /\ nodes' = nodes
          /\ Len(result'.items) = Len(nodes)
          /\ {result'.items[k].id : k \in 1..Len(result'.items)}
                = 1..Len(nodes)
          /\ \A k \in 1..Len(result'.items) :
                SameChunk(result'.items[k], nodes[result'.items[k].id])]_vars

\* the second candidate came out first with a boosted score, and still has
\* its own score in the input
C26_Witness ==
    /\ pc = "r_done"
    /\ Len(nodes) = 2
    /\ result.items[1].id = 2
    /\ result.items[1].score > nodes[2].score
    /\ nodes[2].score > 0

\* C27: build_grounded_filter returns None whenever the equipment kinds are
\* empty, whatever the ontology classes and the point-tag phrases; so every
\* filter it returns holds a condition on the equipment kinds, and a None
\* result always comes from the generic-only check, never from the check for
\* zero conditions
C27_NoFilterWithoutEquip ==
    pc = "f_done" =>
        /\ concepts.equip = <<>> => qfilter.none
        /\ ~qfilter.none =>
              \E i \in 1..Len(qfilter.should) :
                  /\ qfilter.should[i].key = "equip"
                  /\ qfilter.should[i].any = concepts.equip
                  /\ concepts.equip # <<>>
        /\ qfilter.none =>
              /\ Range(concepts.equip) \cap HIGH_VALUE_EQUIP = {}
              /\ Range(concepts.equip) \subseteq GENERIC_EQUIP

\* ontology classes and point tags without an equipment kind: no filter
C27_Witness ==
    /\ pc = "f_done"
    /\ concepts.equip = <<>>
    /\ concepts.brick_equip # <<>>
    /\ concepts.ptags # <<>>
    /\ qfilter = NoFilter

\* the positions in the call log of the calls of that name
CallsOf(op) == {k \in 1..Len(calls) : calls[k].op = op}

SearchCalls == CallsOf("plain_search") \cup CallsOf("filtered_search")

\* at most two searches, and a plain search after a filtered search only
\* when the filtered search answered with no candidate
SearchDiscipline ==
    /\ Cardinality(SearchCalls) <= 2
    /\ Cardinality(CallsOf("plain_search")) <= 1
    /\ Cardinality(CallsOf("filtered_search")) <= 1
    /\ \A j \in CallsOf("filtered_search"), k \in CallsOf("plain_search") :
          j < k /\ calls[j].ok /\ nodes = <<>>

\* C28 as stated: in grounded mode every retrieval makes exactly one call to
\* the grounding service, before any search, makes at most two searches, and
\* a plain search follows a filtered one only when that returned nothing.
C28_OneGroundingCall ==
    mode = "grounded" =>
        /\ Finished => Cardinality(CallsOf("post_ground")) = 1
        /\ \A j \in CallsOf("post_ground"), k \in SearchCalls : j < k
        /\ SearchDiscipline

\* C28 amended: in grounded mode every retrieval calls ground_query exactly
\* once, before anything else; that call sends one request to the grounding
\* service when the query, cut and trimmed, is not empty, and none when it
\* is; the request comes before any search; at most two searches are made,
\* and a plain search follows a filtered one only when that returned nothing
C28_OneGroundQuery ==
    mode = "grounded" =>
        /\ pc # "start" => CallsOf("ground_query") = {1}
        /\ pc # "start" =>
              Cardinality(CallsOf("post_ground"))
                 = IF Strip(Take(text, QueryMaxLength)) = <<>> THEN 0 ELSE 1
        /\ \A j \in CallsOf("post_ground"), k \in SearchCalls : j < k
        /\ SearchDiscipline

\* a blank query in grounded mode: ground_query was called, the service was
\* not, and the plain search answered
C28_Witness ==
    /\ pc = "responded"
    /\ mode = "grounded"
    /\ text = <<" ">>
    /\ CallsOf("ground_query") = {1}
    /\ CallsOf("post_ground") = {}
    /\ CallsOf("plain_search") = {2}
    /\ response.status = 200

\* C29: whatever the interleaving of its steps with calls of set_index_cache
\* and clear_index_cache, get_or_build_index never returns None
C29_NeverReturnsNone ==
    \A t \in Callers :
        callers[t].at = "returned" => callers[t].got # NoHandle

\* the ids of the candidates that were returned
ReturnedIds == {result.items[k].id : k \in 1..Len(result.items)}

\* C30: when the filtered overfetch returned at least one candidate, every
\* candidate returned is one of the fetched candidates and matches at least
\* one condition of the filter, and no fetched candidate that was left out
\* has a strictly higher adjusted score than a returned one
C30_ReturnedAreBestFetched ==
    pc \in {"done", "responded"} /\ GroundedPathTaken =>
        /\ result.status = "returned"
        /\ \A k \in 1..Len(result.items) :
              \E j \in 1..Len(nodes) :
                  /\ SameChunk(result.items[k], nodes[j])
                  /\ result.items[k].score = BoostedScore(nodes[j], concepts)
                  /\ Matches(nodes[j], qfilter)
        /\ \A j \in 1..Len(nodes) :
              nodes[j].id \notin ReturnedIds =>
                  \A k \in 1..Len(result.items) :
                      BoostedScore(nodes[j], concepts) <= result.items[k].score

\* a fetched candidate was left out although the search had ranked it above
\* a returned one, and the returned one matches one condition of the filter
\* and not another
C30_Witness ==
    /\ pc = "done"
    /\ GroundedPathTaken
    /\ result.status = "returned"
    /\ Len(qfilter.should) > 1
    /\ \E j \in 1..Len(nodes), k \in 1..Len(result.items) :
          /\ nodes[j].id \notin ReturnedIds
          /\ nodes[j].score > nodes[result.items[k].id].score
          /\ ~MatchesAll(result.items[k], qfilter)

=============================================================================
